---- MODULE Spec2Model ----
(***************************************************************************)
(* A model of CoarseMatching (loftr/utils/coarse_matching.py): the coarse  *)
(* matcher's construction, forward, get_coarse_match and the two border    *)
(* masking routines.                                                       *)
(*                                                                         *)
(* Tensors are nested functions over 0-based index ranges, one level per   *)
(* axis; a tensor's shape is read off its domains.  Pairs such as hw0_c    *)
(* are TLA+ tuples, so the source's x[0], x[1] are x[1], x[2] here.        *)
(* Confidences are fixed-point numbers: the integer MaxConf stands for     *)
(* 1.0.  Pixel coordinates are exact fractions <<numerator, denominator>>  *)
(* in lowest terms (Python's true division).                               *)
(***************************************************************************)
EXTENDS Integers, Sequences, FiniteSets, TLC

VARIABLES
    self,    \* the CoarseMatching object: its attributes, by name
    args,    \* the arguments of the call in progress, by parameter name (an
             \* optional parameter left at None has no entry)
    data,    \* the data bundle (a dict: key -> value)
    m,       \* the 5-axis boolean mask the border routines write in place
    mask2,   \* get_coarse_match's local mask as step 2 leaves it
    result,  \* what the call returned, or the exception it raised
    pc       \* "ready" before the call, "returned" or "raised" after it

vars == <<self, args, data, m, mask2, result, pc>>

----------------------------------------------------------------------------
(* Bounds of the model *)

\* the fixed-point representation of confidence 1.0: confidences are 0..MaxConf
MaxConf == 2

\* the largest border margin the border routines are called with
MaxBd == 2

\* the length of every axis of the mask the border routines are called on
Dim == 4

\* the batch axis: every call is on a batch of two samples
BatchIds == {0, 1}

\* the index range of an axis of length n
Range(n) == 0 .. (n - 1)

\* the optional entries of the bundle: nothing, or key -> value
Optional(key, values) == {<<>>} \cup {key :> v : v \in values}

\* a 1x2 grid of 16x32 pixels against a 2x1 grid of 32x16 pixels
MatchData ==
    [hw0_i |-> <<16, 32>>, hw1_i |-> <<32, 16>>,
     hw0_c |-> <<1, 2>>, hw1_c |-> <<2, 1>>]

----------------------------------------------------------------------------
(* Arithmetic helpers *)

Max(S) == CHOOSE x \in S : \A y \in S : y <= x

RECURSIVE GCD(_, _)
GCD(a, b) == IF b = 0 THEN a ELSE GCD(b, a % b)

\* the fraction n/d, d > 0, in lowest terms
Rat(n, d) == <<n \div GCD(n, d), d \div GCD(n, d)>>

RatMul(p, q) == Rat(p[1] * q[1], p[2] * q[2])

\* 'key in dict'
Has(d, k) == k \in DOMAIN d

\* dict.update(e): e's keys win
Update(d, e) == e @@ d

\* the number of True entries of a boolean vector
CountTrue(f) == Cardinality({k \in DOMAIN f : f[k]})

\* the first index a Python slice [k:] selects on an axis of length n
SliceStart(k, n) ==
    IF k < 0 THEN (IF k + n < 0 THEN 0 ELSE k + n)
    ELSE (IF k > n THEN n ELSE k)

----------------------------------------------------------------------------
(* Construction *)

\* __init__: the attributes set for a config; an unknown match_type raises
Construct(config) ==
    LET base == [thr |-> config.thr,
                 border_rm |-> 0,
                 train_coarse_percent |-> config.train_coarse_percent,
                 train_pad_num_gt_min |-> config.train_pad_num_gt_min,
                 match_type |-> config.match_type]
    IN  IF config.match_type = "dual_softmax"
        THEN [temperature |-> config.dsmax_temperature] @@ base
        ELSE IF config.match_type = "sinkhorn"
        THEN [bin_score |-> config.skh_init_bin_score,
              skh_iters |-> config.skh_iters,
              skh_prefilter |-> config.skh_prefilter] @@ base
        ELSE "NotImplementedError"

\* a config as the surrounding pipeline supplies it
Config(match_type, thr, border_rm) ==
    [thr |-> thr,
     border_rm |-> border_rm,
     train_coarse_percent |-> 1,
     train_pad_num_gt_min |-> 1,
     match_type |-> match_type,
     dsmax_temperature |-> 1,
     skh_init_bin_score |-> 1,
     skh_iters |-> 1,
     skh_prefilter |-> FALSE]

----------------------------------------------------------------------------
(* Border masking *)

\* the shape of a 5-axis tensor [N, H0, W0, H1, W1], batch axis excluded
AxisLen(t, b, axis) ==
    CASE axis = 1 -> Cardinality(DOMAIN t[b])
      [] axis = 2 -> Cardinality(DOMAIN t[b][0])
      [] axis = 3 -> Cardinality(DOMAIN t[b][0][0])
      [] axis = 4 -> Cardinality(DOMAIN t[b][0][0][0])

\* valid heights and widths of a padding mask [N, H, W]:
\* p_m.sum(1).max(-1)[0] and p_m.sum(-1).max(-1)[0]
ValidHeights(p_m) ==
    [b \in DOMAIN p_m |->
        Max({Cardinality({r \in DOMAIN p_m[b] : p_m[b][r][c]}) :
                c \in DOMAIN p_m[b][0]})]

ValidWidths(p_m) ==
    [b \in DOMAIN p_m |-> Max({CountTrue(p_m[b][r]) : r \in DOMAIN p_m[b]})]

mask_border_with_padding(t, bd, v, p_m0, p_m1) ==
    IF bd <= 0 THEN t
    ELSE LET h0s == ValidHeights(p_m0)
             w0s == ValidWidths(p_m0)
             h1s == ValidHeights(p_m1)
             w1s == ValidWidths(p_m1)
             Border(b, r0, c0, r1, c1) ==
                 \/ r0 < bd \/ c0 < bd \/ r1 < bd \/ c1 < bd
                 \/ /\ b \in DOMAIN p_m0 /\ b \in DOMAIN p_m1
                    /\ \/ r0 >= SliceStart(h0s[b] - bd, AxisLen(t, b, 1))
                       \/ c0 >= SliceStart(w0s[b] - bd, AxisLen(t, b, 2))
                       \/ r1 >= SliceStart(h1s[b] - bd, AxisLen(t, b, 3))
                       \/ c1 >= SliceStart(w1s[b] - bd, AxisLen(t, b, 4))
         IN  [b \in DOMAIN t |->
               [r0 \in DOMAIN t[b] |->
                 [c0 \in DOMAIN t[b][r0] |->
                   [r1 \in DOMAIN t[b][r0][c0] |->
                     [c1 \in DOMAIN t[b][r0][c0][r1] |->
                       IF Border(b, r0, c0, r1, c1) THEN v
                       ELSE t[b][r0][c0][r1][c1]]]]]]

mask_border(t, bw, v) ==
    IF bw <= 0 THEN t
    ELSE LET Border(b, r0, c0, r1, c1) ==
                 \/ r0 < bw \/ c0 < bw \/ r1 < bw \/ c1 < bw
                 \/ r0 >= SliceStart(-bw, AxisLen(t, b, 1))
                 \/ c0 >= SliceStart(-bw, AxisLen(t, b, 2))
                 \/ r1 >= SliceStart(-bw, AxisLen(t, b, 3))
                 \/ c1 >= SliceStart(-bw, AxisLen(t, b, 4))
         IN  [b \in DOMAIN t |->
               [r0 \in DOMAIN t[b] |->
                 [c0 \in DOMAIN t[b][r0] |->
                   [r1 \in DOMAIN t[b][r0][c0] |->
                     [c1 \in DOMAIN t[b][r0][c0][r1] |->
                       IF Border(b, r0, c0, r1, c1) THEN v
                       ELSE t[b][r0][c0][r1][c1]]]]]]

\* a call of mask_border_with_padding(m, bd, v, p_m0, p_m1); m is written in place
MaskBorderWithPadding ==
    /\ pc = "ready"
    /\ args.call = "mask_border_with_padding"
    /\ m' = mask_border_with_padding(m, args.bd, args.v, args.p_m0, args.p_m1)
    /\ result' = "None"
    /\ pc' = "returned"
    /\ UNCHANGED <<self, args, data, mask2>>

\* a call of mask_border(m, b, v); m is written in place
MaskBorder ==
    /\ pc = "ready"
    /\ args.call = "mask_border"
    /\ m' = mask_border(m, args.b, args.v)
    /\ result' = "None"
    /\ pc' = "returned"
    /\ UNCHANGED <<self, args, data, mask2>>

\* a padding mask [N, H, W]: sample b is valid on its top-left extents[b] cells
RectMask(H, W, extents) ==
    [b \in BatchIds |->
      [r \in Range(H) |->
        [c \in Range(W) |-> r < extents[b][1] /\ c < extents[b][2]]]]

\* the masks [N, Dim, Dim, Dim, Dim] the routines are called on: all True, and a
\* checkerboard
BorderInputs ==
    {[b \in BatchIds |-> [r0 \in Range(Dim) |-> [c0 \in Range(Dim) |->
        [r1 \in Range(Dim) |-> [c1 \in Range(Dim) |->
            all \/ (b + r0 + c0 + r1 + c1) % 2 = 0]]]]] : all \in BOOLEAN}

\* the batch is padded to its largest sample: one sample has any valid extents
\* <<h0, w0, h1, w1>> from 1 up to the tensor size, the others fill the tensor
InitBorder ==
    /\ self = Construct(Config("dual_softmax", 0, 0))
    /\ m \in BorderInputs
    /\ \E bd \in -1 .. MaxBd, v \in BOOLEAN :
         \/ \E small \in BatchIds, e \in (1 .. Dim) \X (1 .. Dim) \X (1 .. Dim) \X (1 .. Dim) :
              LET ext0 == [b \in BatchIds |-> IF b = small THEN <<e[1], e[2]>> ELSE <<Dim, Dim>>]
                  ext1 == [b \in BatchIds |-> IF b = small THEN <<e[3], e[4]>> ELSE <<Dim, Dim>>]
              IN  args = [call |-> "mask_border_with_padding", m |-> m, bd |-> bd,
                          v |-> v, p_m0 |-> RectMask(Dim, Dim, ext0),
                          p_m1 |-> RectMask(Dim, Dim, ext1)]
         \/ args = [call |-> "mask_border", m |-> m, b |-> bd, v |-> v]
    /\ data = <<>>
    /\ mask2 = <<>>
    /\ result = "none"
    /\ pc = "ready"

NextBorder == MaskBorderWithPadding \/ MaskBorder

SpecBorder == InitBorder /\ [][NextBorder]_vars

----------------------------------------------------------------------------
(* get_coarse_match *)

\* a threshold that lets an entry equal to thr through
ThresholdNotStrict(conf_matrix, thr) ==
    [b \in DOMAIN conf_matrix |->
      [i \in DOMAIN conf_matrix[b] |->
        [j \in DOMAIN conf_matrix[b][i] |-> conf_matrix[b][i][j] >= thr]]]

\* 1. mask = conf_matrix > self.thr
Threshold(conf_matrix, thr) ==
    [b \in DOMAIN conf_matrix |->
      [i \in DOMAIN conf_matrix[b] |->
        [j \in DOMAIN conf_matrix[b][i] |-> conf_matrix[b][i][j] > thr]]]

\* mask.reshape(b, h0c, w0c, h1c, w1c)
Reshape5(mask, h0c, w0c, h1c, w1c) ==
    [b \in DOMAIN mask |->
      [r0 \in Range(h0c) |->
        [c0 \in Range(w0c) |->
          [r1 \in Range(h1c) |->
            [c1 \in Range(w1c) |-> mask[b][r0 * w0c + c0][r1 * w1c + c1]]]]]]

\* mask.reshape(b, h0c * w0c, h1c * w1c)
Reshape3(t, h0c, w0c, h1c, w1c) ==
    [b \in DOMAIN t |->
      [i \in Range(h0c * w0c) |->
        [j \in Range(h1c * w1c) |->
            t[b][i \div w0c][i % w0c][j \div w1c][j % w1c]]]]

\* the border masking get_coarse_match applies, by the presence of 'mask0'
BorderMasked(obj, mask, d) ==
    LET t == Reshape5(mask, d.hw0_c[1], d.hw0_c[2], d.hw1_c[1], d.hw1_c[2])
        u == IF ~Has(d, "mask0")
             THEN mask_border(t, obj.border_rm, FALSE)
             ELSE mask_border_with_padding(t, obj.border_rm, FALSE,
                                           d.mask0, d.mask1)
    IN  Reshape3(u, d.hw0_c[1], d.hw0_c[2], d.hw1_c[1], d.hw1_c[2])

RowMax(conf_matrix, b, i) ==
    Max({conf_matrix[b][i][j] : j \in DOMAIN conf_matrix[b][i]})

ColMax(conf_matrix, b, j) ==
    Max({conf_matrix[b][i][j] : i \in DOMAIN conf_matrix[b]})

\* a filter that forgets the row maximum
MutualNearestNoRow(mask, conf_matrix) ==
    [b \in DOMAIN mask |->
      [i \in DOMAIN mask[b] |->
        [j \in DOMAIN mask[b][i] |->
            /\ mask[b][i][j]
            /\ conf_matrix[b][i][j] = ColMax(conf_matrix, b, j)]]]

\* a filter that forgets the column maximum
MutualNearestNoCol(mask, conf_matrix) ==
    [b \in DOMAIN mask |->
      [i \in DOMAIN mask[b] |->
        [j \in DOMAIN mask[b][i] |->
            /\ mask[b][i][j]
            /\ conf_matrix[b][i][j] = RowMax(conf_matrix, b, i)]]]

\* 2. mutual nearest
MutualNearest(mask, conf_matrix) ==
    [b \in DOMAIN mask |->
      [i \in DOMAIN mask[b] |->
        [j \in DOMAIN mask[b][i] |->
            /\ mask[b][i][j]
            /\ conf_matrix[b][i][j] = RowMax(conf_matrix, b, i)
            /\ conf_matrix[b][i][j] = ColMax(conf_matrix, b, j)]]]

\* the mask after steps 1 and 2
Step2Mask(obj, conf_matrix, d) ==
    MutualNearest(BorderMasked(obj, Threshold(conf_matrix, obj.thr), d),
                  conf_matrix)

\* ck = mask.view(b, -1).sum(-1) == 0
Empty(mask, b) == \A i \in DOMAIN mask[b] : \A j \in DOMAIN mask[b][i] : ~mask[b][i][j]

\* a fallback that marks cell (0, 1) instead of (0, 0)
FallbackWrongCell(mask, d) ==
    IF Has(d, "dataset_name")
    THEN [b \in DOMAIN mask |->
            IF Empty(mask, b)
            THEN [mask[b] EXCEPT ![0] = [mask[b][0] EXCEPT ![1] = TRUE]]
            ELSE mask[b]]
    ELSE mask

\* a fallback that is not gated by the training indicator
FallbackUngated(mask, d) ==
    [b \in DOMAIN mask |->
        IF Empty(mask, b)
        THEN [mask[b] EXCEPT ![0] = [mask[b][0] EXCEPT ![0] = TRUE]]
        ELSE mask[b]]

\* 3. if 'dataset_name' in data: mask[ck, 0, 0] = True
Fallback(mask, d) ==
    IF Has(d, "dataset_name")
    THEN [b \in DOMAIN mask |->
            IF Empty(mask, b)
            THEN [mask[b] EXCEPT ![0] = [mask[b][0] EXCEPT ![0] = TRUE]]
            ELSE mask[b]]
    ELSE mask

\* mask_v of mask.max(dim=2)
MaskV(mask) ==
    [b \in DOMAIN mask |->
      [i \in DOMAIN mask[b] |-> \E j \in DOMAIN mask[b][i] : mask[b][i][j]]]

\* a scan that visits the rows of a sample from last to first
WhereReversedRows(mask_v) ==
    LET N == Cardinality(DOMAIN mask_v)
        L == Cardinality(DOMAIN mask_v[0])
        scan == [k \in 1 .. N * L |-> <<(k - 1) \div L, L - 1 - ((k - 1) % L)>>]
    IN  SelectSeq(scan, LAMBDA p : mask_v[p[1]][p[2]])

\* torch.where(mask_v): the True positions <<b, i>> in row-major order
Where(mask_v) ==
    LET N == Cardinality(DOMAIN mask_v)
        L == Cardinality(DOMAIN mask_v[0])
        scan == [k \in 1 .. N * L |-> <<(k - 1) \div L, (k - 1) % L>>]
    IN  SelectSeq(scan, LAMBDA p : mask_v[p[1]][p[2]])

\* all_j_ids[b_ids, i_ids]: for each extracted row the index mask.max(dim=2)
\* reports, one of the columns holding the row's maximum (True); which one, when
\* several do, is the tensor library's choice
RECURSIVE ArgMaxChoices(_, _, _)
ArgMaxChoices(mask, pairs, k) ==
    IF k = 0 THEN {<<>>}
    ELSE LET row == mask[pairs[k][1]][pairs[k][2]]
         IN  {Append(s, j) : s \in ArgMaxChoices(mask, pairs, k - 1),
                             j \in {jj \in DOMAIN row : row[jj]}}

\* scale * data['scale0'][b_ids] if 'scale0' in data else scale, per match,
\* as the pair of factors the (x, y) columns are multiplied by
EffScale(d, key, b_ids) ==
    LET scale == Rat(d.hw0_i[1], d.hw0_c[1])
    IN  [k \in DOMAIN b_ids |->
            IF Has(d, key)
            THEN <<RatMul(scale, Rat(d[key][b_ids[k]][1], 1)),
                   RatMul(scale, Rat(d[key][b_ids[k]][2], 1))>>
            ELSE <<scale, scale>>]

\* a conversion with column and row exchanged
KeypointsSwapped(ids, w, scales) ==
    [k \in DOMAIN ids |->
        <<RatMul(Rat(ids[k] \div w, 1), scales[k][1]),
          RatMul(Rat(ids[k] % w, 1), scales[k][2])>>]

\* torch.stack([ids % w, ids // w], dim=1) * scale
Keypoints(ids, w, scales) ==
    [k \in DOMAIN ids |->
        <<RatMul(Rat(ids[k] % w, 1), scales[k][1]),
          RatMul(Rat(ids[k] \div w, 1), scales[k][2])>>]

\* the dicts get_coarse_match can return
get_coarse_match(obj, conf_matrix, d) ==
    LET mask == Fallback(Step2Mask(obj, conf_matrix, d), d)
        pairs == Where(MaskV(mask))
        b_ids == [k \in DOMAIN pairs |-> pairs[k][1]]
        i_ids == [k \in DOMAIN pairs |-> pairs[k][2]]
    IN  {[b_ids |-> b_ids,
          i_ids |-> i_ids,
          j_ids |-> j_ids,
          m_bids |-> b_ids,
          mkpts0_c |-> Keypoints(i_ids, d.hw0_c[2], EffScale(d, "scale0", b_ids)),
          mkpts1_c |-> Keypoints(j_ids, d.hw1_c[2], EffScale(d, "scale1", b_ids)),
          mconf |-> [k \in DOMAIN pairs |-> conf_matrix[b_ids[k]][i_ids[k]][j_ids[k]]]]
         : j_ids \in ArgMaxChoices(mask, pairs, Len(pairs))}

\* a direct call of get_coarse_match(conf_matrix, data)
GetCoarseMatch ==
    /\ pc = "ready"
    /\ args.call = "get_coarse_match"
    /\ mask2' = Step2Mask(self, args.conf_matrix, data)
    /\ \E coarse_matches \in get_coarse_match(self, args.conf_matrix, data) :
           result' = coarse_matches
    /\ pc' = "returned"
    /\ UNCHANGED <<self, args, data, m>>

----------------------------------------------------------------------------
(* forward *)

\* INF = 1e9
INF == 1000000000

RECURSIVE SumTo(_, _)
\* f[0] + ... + f[n - 1]
SumTo(f, n) == IF n = 0 THEN 0 ELSE f[n - 1] + SumTo(f, n - 1)

\* einsum("nlc,nsc->nls"): the dot products of the feature vectors.  The model
\* keeps them as integers and lets 2 stand for exp(1 / (C * temperature)), the
\* factor one unit of dot product multiplies a softmax weight by after the
\* division by sqrt(C) twice and by the temperature.
SimMatrix(feat_c0, feat_c1) ==
    [n \in DOMAIN feat_c0 |->
      [l \in DOMAIN feat_c0[n] |->
        [s \in DOMAIN feat_c1[n] |->
            SumTo([c \in DOMAIN feat_c0[n][l] |-> feat_c0[n][l][c] * feat_c1[n][s][c]],
                  Cardinality(DOMAIN feat_c0[n][l]))]]]

\* sim_matrix.masked_fill_(~(mask_c0[..., None] * mask_c1[:, None]), -INF)
MaskedFill(sim_matrix, mask_c0, mask_c1) ==
    [n \in DOMAIN sim_matrix |->
      [l \in DOMAIN sim_matrix[n] |->
        [s \in DOMAIN sim_matrix[n][l] |->
            IF mask_c0[n][l] /\ mask_c1[n][s] THEN sim_matrix[n][l][s] ELSE -INF]]]

\* the softmax weight of x in a slice whose maximum is mx: exp(x - mx) up to the
\* slice's common factor; exp(-INF - mx) underflows to 0
Weight(x, mx) == IF mx = -INF THEN 1 ELSE IF x = -INF THEN 0 ELSE 2 ^ x

\* F.softmax(sim_matrix, 1)[n, l, s] and F.softmax(sim_matrix, 2)[n, l, s]
Softmax1(sim, n, l, s) ==
    LET mx == Max({sim[n][ll][s] : ll \in DOMAIN sim[n]})
    IN  Rat(Weight(sim[n][l][s], mx),
            SumTo([ll \in DOMAIN sim[n] |-> Weight(sim[n][ll][s], mx)],
                  Cardinality(DOMAIN sim[n])))

Softmax2(sim, n, l, s) ==
    LET mx == Max({sim[n][l][ss] : ss \in DOMAIN sim[n][l]})
    IN  Rat(Weight(sim[n][l][s], mx),
            SumTo([ss \in DOMAIN sim[n][l] |-> Weight(sim[n][l][ss], mx)],
                  Cardinality(DOMAIN sim[n][l])))

\* conf_matrix = F.softmax(sim_matrix, 1) * F.softmax(sim_matrix, 2), rounded
\* down to the fixed-point grid
DualSoftmax(sim) ==
    [n \in DOMAIN sim |->
      [l \in DOMAIN sim[n] |->
        [s \in DOMAIN sim[n][l] |->
            LET p == RatMul(Softmax1(sim, n, l, s), Softmax2(sim, n, l, s))
            IN  (MaxConf * p[1]) \div p[2]]]]

\* the confidence matrix forward computes once it is past its checks
ForwardConf(a) ==
    LET sim_matrix == SimMatrix(a.feat_c0, a.feat_c1)
    IN  DualSoftmax(IF Has(a, "mask_c0")
                    THEN MaskedFill(sim_matrix, a.mask_c0, a.mask_c1)
                    ELSE sim_matrix)

\* forward(feat_c0, feat_c1, data, mask_c0, mask_c1)
Forward ==
    /\ pc = "ready"
    /\ args.call = "forward"
    /\ \/ \* self.temperature is read first: an object without it raises
          /\ ~Has(self, "temperature")
          /\ result' = "AttributeError"
          /\ pc' = "raised"
          /\ UNCHANGED <<data, mask2>>
       \/ \* the assert under 'if mask_c0 is not None'; with asserts compiled
          \* out, mask_c1[:, None] raises on None in its place
          /\ Has(self, "temperature")
          /\ Has(args, "mask_c0") /\ ~Has(args, "mask_c1")
          /\ result' \in {"AssertionError", "TypeError"}
          /\ pc' = "raised"
          /\ UNCHANGED <<data, mask2>>
       \/ /\ Has(self, "temperature")
          /\ Has(args, "mask_c0") => Has(args, "mask_c1")
          /\ LET conf_matrix == ForwardConf(args)
                 d == Update(data, [conf_matrix |-> conf_matrix])
             IN  /\ mask2' = Step2Mask(self, conf_matrix, d)
                 /\ \E coarse_matches \in get_coarse_match(self, conf_matrix, d) :
                        data' = Update(d, coarse_matches)
          /\ result' = "None"
          /\ pc' = "returned"
    /\ UNCHANGED <<self, args, m>>

\* feature batches [N, L, C] with entries 0 or 2
FeatureBatches(L, C) == [BatchIds -> [Range(L) -> [Range(C) -> {0, 2}]]]

\* validity masks [N, L]: all valid, or sample 1 padded after cell 0
ValidityMasks(L) ==
    {[b \in BatchIds |-> [i \in Range(L) |-> TRUE]],
     [b \in BatchIds |-> [i \in Range(L) |-> b = 0 \/ i = 0]]}

\* the padding masks [N, H, W] of the bundle, all valid
FullMask(hw) == [b \in BatchIds |-> [r \in Range(hw[1]) |-> [c \in Range(hw[2]) |-> TRUE]]]

InitForward ==
    /\ \E match_type \in {"dual_softmax", "sinkhorn"}, thr \in 0 .. (MaxConf - 1) :
           self = Construct(Config(match_type, thr, 0))
    /\ \E feat_c0 \in FeatureBatches(2, 1), feat_c1 \in FeatureBatches(2, 1),
          mask_c0 \in Optional("mask_c0", ValidityMasks(2)),
          mask_c1 \in Optional("mask_c1", ValidityMasks(2)) :
           args = mask_c0 @@ mask_c1 @@
                  [call |-> "forward", feat_c0 |-> feat_c0, feat_c1 |-> feat_c1]
    /\ \E training \in Optional("dataset_name", {"train"}),
          padded \in {<<>>, [mask0 |-> FullMask(MatchData.hw0_c),
                             mask1 |-> FullMask(MatchData.hw1_c)]} :
           data = training @@ padded @@ MatchData
    /\ m = <<>>
    /\ mask2 = <<>>
    /\ result = "none"
    /\ pc = "ready"

NextForward == Forward

SpecForward == InitForward /\ [][NextForward]_vars

----------------------------------------------------------------------------
(* The matcher on arbitrary confidence matrices *)

\* confidence tensors [N, L, S] with entries 0..MaxConf
ConfMatrices(L, S) == [BatchIds -> [Range(L) -> [Range(S) -> 0 .. MaxConf]]]

Init ==
    /\ \E thr \in 0 .. (MaxConf - 1) :
           self = Construct(Config("dual_softmax", thr, 0))
    /\ \E conf_matrix \in ConfMatrices(2, 2) :
           args = [call |-> "get_coarse_match", conf_matrix |-> conf_matrix]
    /\ \E training \in BOOLEAN :
           data = IF training
                  THEN Update(MatchData, [dataset_name |-> "train"])
                  ELSE MatchData
    /\ m = <<>>
    /\ mask2 = <<>>
    /\ result = "none"
    /\ pc = "ready"

Next == GetCoarseMatch

Spec == Init /\ [][Next]_vars

----------------------------------------------------------------------------
(* The matcher on forced matches over grids of every shape up to 2x2 *)

GridShapes == {<<1, 1>>, <<1, 2>>, <<2, 1>>, <<2, 2>>}

\* a sample with confidence MaxConf at cell peak and 0 elsewhere; no peak at all
\* when peak is not a cell
PeakSample(L, S, peak) ==
    [i \in Range(L) |-> [j \in Range(S) |-> IF <<i, j>> = peak THEN MaxConf ELSE 0]]

PeakMatrices(L, S) ==
    {[b \in BatchIds |-> PeakSample(L, S, peaks[b])] :
        peaks \in [BatchIds -> (Range(L) \X Range(S)) \cup {<<>>}]}

\* per-sample scale factors [N, 2]
ScaleTensors ==
    {[b \in BatchIds |-> <<1 + b, 2 - b>>], [b \in BatchIds |-> <<3, 1 + b>>]}

InitCoords ==
    /\ self = Construct(Config("dual_softmax", 0, 0))
    /\ \E hw0_c \in GridShapes, hw1_c \in GridShapes :
         /\ \E conf_matrix \in PeakMatrices(hw0_c[1] * hw0_c[2], hw1_c[1] * hw1_c[2]) :
                args = [call |-> "get_coarse_match", conf_matrix |-> conf_matrix]
         /\ \E extra \in 0 .. 1,
               scale0 \in Optional("scale0", ScaleTensors),
               scale1 \in Optional("scale1", ScaleTensors),
               training \in Optional("dataset_name", {"train"}) :
                data = training @@ scale0 @@ scale1 @@
                       [hw0_i |-> <<8 * hw0_c[1] + extra, 8 * hw0_c[2]>>,
                        hw1_i |-> <<16 * hw1_c[1], 16 * hw1_c[2]>>,
                        hw0_c |-> hw0_c,
                        hw1_c |-> hw1_c]
    /\ m = <<>>
    /\ mask2 = <<>>
    /\ result = "none"
    /\ pc = "ready"

NextCoords == GetCoarseMatch

SpecCoords == InitCoords /\ [][NextCoords]_vars

----------------------------------------------------------------------------
(* Properties of the match list get_coarse_match returns *)

Returned == pc = "returned" /\ args.call = "get_coarse_match"

Training == Has(data, "dataset_name")

\* the indices k of the returned matches, and those of sample b
Matches == 1 .. Len(result.b_ids)
MatchesOf(b) == {k \in Matches : result.b_ids[k] = b}

\* sample b has no qualifying pair: its mask is all False after steps 1 and 2
NoPair(mask, b) == Empty(mask, b)

\* the True columns of row i of sample b after step 2
TrueCols(mask, b, i) == {j \in DOMAIN mask[b][i] : mask[b][i][j]}

\* C1: every returned match other than the synthetic training fallback has a
\* confidence strictly above thr that is the maximum of its row and of its column
C1_MatchesAreMutualMaxAboveThr ==
    Returned =>
        LET mask == mask2 IN
            \A k \in Matches :
                LET b == result.b_ids[k]
                    i == result.i_ids[k]
                    j == result.j_ids[k]
                    c == args.conf_matrix[b]
                IN  ~(Training /\ NoPair(mask, b)) =>
                        /\ c[i][j] > self.thr
                        /\ \A jj \in DOMAIN c[i] : c[i][jj] <= c[i][j]
                        /\ \A ii \in DOMAIN c : c[ii][j] <= c[i][j]

\* a genuine match is returned while another entry of its sample is above thr
\* and is not returned, and some entry equals thr
C1_Witness ==
    /\ Returned
    /\ \E k \in Matches :
           LET b == result.b_ids[k]
               c == args.conf_matrix[b]
           IN  /\ ~NoPair(mask2, b)
               /\ \E i \in DOMAIN c : \E j \in DOMAIN c[i] :
                      /\ c[i][j] > self.thr
                      /\ \A kk \in MatchesOf(b) : result.i_ids[kk] # i
               /\ \E i \in DOMAIN c : \E j \in DOMAIN c[i] : c[i][j] = self.thr

\* C2: in a training context a sample with no qualifying pair gets exactly one
\* match, at (0, 0), whose mconf is conf_matrix[sample, 0, 0]
C2_TrainingFallbackAtOrigin ==
    (Returned /\ Training) =>
        LET mask == mask2 IN
            \A b \in DOMAIN args.conf_matrix :
                NoPair(mask, b) =>
                    /\ Cardinality(MatchesOf(b)) = 1
                    /\ \A k \in MatchesOf(b) :
                           /\ result.i_ids[k] = 0
                           /\ result.j_ids[k] = 0
                           /\ result.mconf[k] = args.conf_matrix[b][0][0]

\* a training call returns the fallback for a sample whose (0, 0) confidence is
\* nonzero, next to a sample with a genuine match
C2_Witness ==
    /\ Returned /\ Training
    /\ \E b \in DOMAIN args.conf_matrix :
           /\ NoPair(mask2, b)
           /\ args.conf_matrix[b][0][0] > 0
           /\ \E k \in MatchesOf(b) : result.mconf[k] > 0
    /\ \E b \in DOMAIN args.conf_matrix : ~NoPair(mask2, b)

\* C3: the synthetic match is added only in a training context and only for a
\* sample with no qualifying pair: without the training indicator such a sample
\* has no match, and every match of a sample with a qualifying pair is one of
\* its qualifying pairs
C3_FallbackOnlyWhenTrainingAndEmpty ==
    Returned =>
        LET mask == mask2 IN
            \A b \in DOMAIN args.conf_matrix :
                /\ (~Training /\ NoPair(mask, b)) => MatchesOf(b) = {}
                /\ ~NoPair(mask, b) =>
                       \A k \in MatchesOf(b) :
                           mask[b][result.i_ids[k]][result.j_ids[k]]

\* an inference call with one sample without a qualifying pair and one sample
\* with a qualifying pair that is not in row 0
C3_Witness ==
    /\ Returned /\ ~Training
    /\ \E b \in DOMAIN args.conf_matrix : NoPair(mask2, b) /\ MatchesOf(b) = {}
    /\ \E b \in DOMAIN args.conf_matrix :
           /\ ~NoPair(mask2, b)
           /\ TrueCols(mask2, b, 0) = {}
           /\ MatchesOf(b) # {}

C8_AtMostOneTruePerRow ==
    Returned =>
        LET mask == mask2 IN
            /\ \A b \in DOMAIN mask : \A i \in DOMAIN mask[b] :
                   Cardinality(TrueCols(mask, b, i)) <= 1
            /\ \A k \in Matches :
                   ~NoPair(mask, result.b_ids[k]) =>
                       TrueCols(mask, result.b_ids[k], result.i_ids[k])
                           = {result.j_ids[k]}

\* C8, amended: the True entries of a row after step 2 all hold the row's maximum
\* confidence, so a row whose maximum is attained in one column only has at most
\* one True entry; the column recorded for an extracted row of a sample with a
\* qualifying pair is the column of one of the row's True entries
C8_TrueEntriesAreTiedRowMaxima ==
    Returned =>
        LET mask == mask2 IN
            /\ \A b \in DOMAIN mask : \A i \in DOMAIN mask[b] :
                   LET row == args.conf_matrix[b][i]
                       top == {j \in DOMAIN row : \A jj \in DOMAIN row : row[jj] <= row[j]}
                   IN  /\ TrueCols(mask, b, i) \subseteq top
                       /\ Cardinality(top) = 1 => Cardinality(TrueCols(mask, b, i)) <= 1
            /\ \A k \in Matches :
                   ~NoPair(mask, result.b_ids[k]) =>
                       result.j_ids[k] \in TrueCols(mask, result.b_ids[k], result.i_ids[k])

\* a row with two True entries is extracted, and so is a row with one
C8_Witness ==
    /\ Returned
    /\ \E k \in Matches :
           Cardinality(TrueCols(mask2, result.b_ids[k], result.i_ids[k])) = 2
    /\ \E k \in Matches :
           Cardinality(TrueCols(mask2, result.b_ids[k], result.i_ids[k])) = 1

\* C9 as stated: within a sample no two matches share i and no two share j
C9_NoSharedCell ==
    Returned =>
        \A k1, k2 \in Matches :
            (k1 # k2 /\ result.b_ids[k1] = result.b_ids[k2]) =>
                /\ result.i_ids[k1] # result.i_ids[k2]
                /\ result.j_ids[k1] # result.j_ids[k2]

\* C9, amended: within a sample no two matches share i; two matches share j only
\* when their confidences are equal (the column's maximum is tied between rows)
C9_SharedColumnOnlyOnTie ==
    Returned =>
        \A k1, k2 \in Matches :
            (k1 # k2 /\ result.b_ids[k1] = result.b_ids[k2]) =>
                /\ result.i_ids[k1] # result.i_ids[k2]
                /\ result.j_ids[k1] = result.j_ids[k2] =>
                       /\ result.mconf[k1] = result.mconf[k2]
                       /\ result.mconf[k1] =
                              args.conf_matrix[result.b_ids[k1]][result.i_ids[k1]][result.j_ids[k1]]

\* one sample returns two matches in one column, another two in two columns
C9_Witness ==
    /\ Returned
    /\ \E k1, k2 \in Matches :
           /\ k1 # k2 /\ result.b_ids[k1] = result.b_ids[k2]
           /\ result.j_ids[k1] = result.j_ids[k2]
    /\ \E k1, k2 \in Matches :
           /\ k1 # k2 /\ result.b_ids[k1] = result.b_ids[k2]
           /\ result.j_ids[k1] # result.j_ids[k2]

\* the fraction p equals n / d
FracEq(p, n, d) == p[1] * d = n * p[2]

\* the factor of sample b's scale entry under key, 1 when the key is absent
ScaleOf(key, b, axis) == IF Has(data, key) THEN data[key][b][axis] ELSE 1

\* C6: mkpts0_c = (i mod W0c, i div W0c) * s0 and mkpts1_c = (j mod W1c,
\* j div W1c) * s1, where s0 and s1 are image0's height ratio hw0_i[0] / hw0_c[0]
\* times the sample's scale0 and scale1 entries when supplied; on 2x2 grids with
\* ratio s and no scale entries, i = 1 gives (s, 0) and j = 2 gives (0, s)
C6_KeypointsRescaled ==
    Returned =>
        \A k \in Matches :
            LET b == result.b_ids[k]
                i == result.i_ids[k]
                j == result.j_ids[k]
                H == data.hw0_i[1]
                h == data.hw0_c[1]
                p0 == result.mkpts0_c[k]
                p1 == result.mkpts1_c[k]
            IN  /\ FracEq(p0[1], (i % data.hw0_c[2]) * H * ScaleOf("scale0", b, 1), h)
                /\ FracEq(p0[2], (i \div data.hw0_c[2]) * H * ScaleOf("scale0", b, 2), h)
                /\ FracEq(p1[1], (j % data.hw1_c[2]) * H * ScaleOf("scale1", b, 1), h)
                /\ FracEq(p1[2], (j \div data.hw1_c[2]) * H * ScaleOf("scale1", b, 2), h)
                /\ (data.hw0_c = <<2, 2>> /\ ~Has(data, "scale0") /\ i = 1) =>
                       /\ FracEq(p0[1], H, h) /\ p0[2] = <<0, 1>>
                /\ (data.hw1_c = <<2, 2>> /\ ~Has(data, "scale1") /\ j = 2) =>
                       /\ p1[1] = <<0, 1>> /\ FracEq(p1[2], H, h)

\* on 2x2 grids with a fractional ratio, sample 1 matches i = 1 with j = 2 under
\* different scale0 and scale1 entries
C6_Witness ==
    /\ Returned
    /\ data.hw0_c = <<2, 2>> /\ data.hw1_c = <<2, 2>>
    /\ data.hw0_i[1] % data.hw0_c[1] # 0
    /\ Has(data, "scale0") /\ Has(data, "scale1") /\ data.scale0 # data.scale1
    /\ \E k \in Matches :
           /\ result.b_ids[k] = 1 /\ result.i_ids[k] = 1 /\ result.j_ids[k] = 2
           /\ result.mkpts0_c[k][1][1] > 0 /\ result.mkpts1_c[k][2][1] > 0

----------------------------------------------------------------------------
(* Properties of forward *)

ForwardDone == pc # "ready" /\ args.call = "forward"

\* the keys forward writes into the bundle
WrittenKeys ==
    {"conf_matrix", "b_ids", "i_ids", "j_ids", "m_bids", "mkpts0_c", "mkpts1_c",
     "mconf"}

\* C4: a forward call given exactly one of the two validity masks fails and
\* writes nothing into the bundle
C4_OneMaskFails ==
    (ForwardDone /\ (Has(args, "mask_c0") # Has(args, "mask_c1"))) =>
        /\ pc = "raised"
        /\ DOMAIN data \cap WrittenKeys = {}

\* C5: a matcher constructed with match_type 'sinkhorn' completes forward on
\* valid inputs and writes the confidence matrix and the match list
C5_SinkhornCompletes ==
    (/\ ForwardDone
     /\ self.match_type = "sinkhorn"
     /\ Has(args, "mask_c0") = Has(args, "mask_c1")) =>
        /\ pc = "returned"
        /\ WrittenKeys \subseteq DOMAIN data

----------------------------------------------------------------------------
(* Properties of mask_border_with_padding *)

\* C10: after mask_border_with_padding with margin bd > 0 and value False, every
\* entry [b, r0, c0, r1, c1] within bd of the near edge or at or beyond the
\* sample's valid extent minus bd, on any axis, is False and every other entry
\* is unchanged; with bd <= 0 the mask is unchanged
C10_BorderOfValidRegionMasked ==
    (/\ pc = "returned"
     /\ args.call = "mask_border_with_padding"
     /\ args.v = FALSE) =>
        LET bd == args.bd
            h0 == ValidHeights(args.p_m0)
            w0 == ValidWidths(args.p_m0)
            h1 == ValidHeights(args.p_m1)
            w1 == ValidWidths(args.p_m1)
        IN  IF bd <= 0 THEN m = args.m
            ELSE \A b \in BatchIds :
                   \A r0 \in Range(Dim), c0 \in Range(Dim),
                      r1 \in Range(Dim), c1 \in Range(Dim) :
                       IF \/ r0 < bd \/ c0 < bd \/ r1 < bd \/ c1 < bd
                          \/ r0 >= h0[b] - bd \/ c0 >= w0[b] - bd
                          \/ r1 >= h1[b] - bd \/ c1 >= w1[b] - bd
                       THEN m[b][r0][c0][r1][c1] = FALSE
                       ELSE m[b][r0][c0][r1][c1] = args.m[b][r0][c0][r1][c1]

====
